---------------------------- MODULE Spec2Model ----------------------------
(***************************************************************************)
(* Platform hooks of two boot stages:                                      *)
(*   plat/hisilicon/hikey960/hikey960_bl1_setup.c   (stage 1, HiKey960)    *)
(*   plat/lcb/bl2_plat_setup.c                      (stage 2, LCB)         *)
(* The state is the static data of the two files, the memory-mapped        *)
(* registers they touch and the position inside bl1_platform_setup.  One   *)
(* action models one hook (or one step of bl1_platform_setup, whose timer  *)
(* bring-up polls hardware).                                               *)
(***************************************************************************)
EXTENDS Integers, Sequences, FiniteSets

(***************************************************************************)
(* Bounds of the model.                                                    *)
(***************************************************************************)
\* longest image-descriptor table (sentinel included)
MaxDescs == 3
\* registers hold 0..MaxRegVal
MaxRegVal == 3
\* values the external loader writes into a record it was handed: 0..MaxWrite
MaxWrite == 2
\* width of unsigned long / size_t in the model
AddrBits == 4

(***************************************************************************)
(* Program constants.  The headers that give them their values are not     *)
(* part of the two files; the image ids are those of the TBBR image-id     *)
(* list (only their being distinct matters), the RAM extents and the       *)
(* register bits are scaled down to the model's width.                     *)
(***************************************************************************)
BOOT_MODE_RECOVERY == 0
BOOT_MODE_NORMAL == 1
BOOT_MODE_MASK == 1

BL2_IMAGE_ID == 1
BL2U_IMAGE_ID == 17
\* (unsigned int)-1 in the code
INVALID_IMAGE_ID == 255

BL1_RW_BASE == 2
BL1_RW_SIZE == 4

PERI_TIMER9_BIT == 2
NP_XO_ABB_DIG == 2

\* a null pointer; &bl1_tbbr_image_descs[i] is modelled by i + 1
NULL == 0

(***************************************************************************)
(* Arithmetic of the C types.                                              *)
(***************************************************************************)
Modulus == 2 ^ AddrBits

\* unsigned subtraction and addition, wrapping at the type's width
USub(a, b) == (a - b + Modulus) % Modulus
UAdd(a, b) == (a + b) % Modulus

\* a & b on naturals
RECURSIVE BitAnd(_, _)
BitAnd(a, b) ==
    IF a = 0 \/ b = 0 THEN 0
    ELSE (a % 2) * (b % 2) + 2 * BitAnd(a \div 2, b \div 2)

\* a & ~b  (mmio_clrbits_32)
BitClr(a, b) == a - BitAnd(a, b)

(***************************************************************************)
(* State.                                                                  *)
(***************************************************************************)
VARIABLES
    BL1_RAM_BASE,           \* linker symbol: start of BL1's RW footprint
    BL1_RAM_LIMIT,          \* linker symbol: end of BL1's RW footprint
    bl1_tbbr_image_descs,   \* the descriptor table: the image_id of each entry
    mmio,                   \* memory-mapped registers and the devices behind them
    stuck,                  \* status bits the hardware never changes
    console,                \* base address console_init was given
    bl1_tzram_layout,       \* static meminfo_t of stage 1
    bl2_tzram_layout,       \* static meminfo_t of stage 2
    bl31_params_mem,        \* static bl2_to_bl31_params_mem_t of stage 2
    callidx,                \* bl1_platform_setup: the call being executed (0: not in it)
    tpc,                    \* hikey960_timer_init: the statement to execute next
    data,                   \* hikey960_timer_init: local variable data
    halted,                 \* panic() was called
    trace,                  \* the calls bl1_platform_setup has completed, in order
    last,                   \* the hook that returned last (or the loader's write)
    arg,                    \* its image_id argument
    ret,                    \* its return value
    examined,               \* entries whose image_id the last lookup read
    overwrote,              \* the last hook re-initialised a record that held other content
    first_layout,           \* bl1_tzram_layout as the first early setup left it
    writers,                \* per static object: the functions of the two files that wrote it
    step                    \* position of the loader in its fixed call order

vars == <<BL1_RAM_BASE, BL1_RAM_LIMIT, bl1_tbbr_image_descs, mmio, stuck, console,
          bl1_tzram_layout, bl2_tzram_layout, bl31_params_mem, callidx, tpc, data,
          halted, trace, last, arg, ret, examined, overwrote, first_layout,
          writers, step>>

\* a static meminfo_t starts zeroed
ZeroLayout == [total_base |-> 0, total_size |-> 0, free_base |-> 0, free_size |-> 0]
\* the two members of bl2_to_bl31_params_mem_t the file names
ZeroParams == [bl31_params |-> 0, bl31_ep_info |-> 0]
NoLayout == [total_base |-> -1, total_size |-> -1, free_base |-> -1, free_size |-> -1]

SharedState == {"bl1_tzram_layout", "bl2_tzram_layout", "bl31_params_mem"}

Void == [kind |-> "void", val |-> 0]
Ptr(obj) == [kind |-> obj, val |-> 0]

(***************************************************************************)
(* Inputs: the link-time layout, the descriptor table and the hardware.    *)
(***************************************************************************)
\* BL1's footprint lies inside the RW region the linker script places it in
Layouts ==
    {x \in (BL1_RW_BASE .. BL1_RW_BASE + BL1_RW_SIZE)
             \X (BL1_RW_BASE .. BL1_RW_BASE + BL1_RW_SIZE) : x[1] <= x[2]}

TableIds == {BL2_IMAGE_ID, BL2U_IMAGE_ID, INVALID_IMAGE_ID}
LookupIds == TableIds

\* the table ends with a sentinel entry (entries may follow the first sentinel)
Tables ==
    {t \in UNION {[1..n -> TableIds] : n \in 1..MaxDescs} :
        \E i \in DOMAIN t : t[i] = INVALID_IMAGE_ID}

RegVals == 0..MaxRegVal

NominalBoard ==
    [ram |-> <<BL1_RW_BASE, BL1_RW_BASE + 2>>,
     descs |-> <<BL2_IMAGE_ID, BL2U_IMAGE_ID, INVALID_IMAGE_ID>>,
     bak_data0 |-> BOOT_MODE_NORMAL,
     ctrl7 |-> NP_XO_ABB_DIG,
     rststat |-> PERI_TIMER9_BIT,
     perstat |-> 0,
     stuck |-> {}]

\* the inputs are read by different hooks: each is varied over its whole range
\* with the others at the nominal board's values
Boards ==
    {[NominalBoard EXCEPT !.ram = x] : x \in Layouts}
    \cup {[NominalBoard EXCEPT !.descs = t] : t \in Tables}
    \cup {[NominalBoard EXCEPT !.bak_data0 = v] : v \in RegVals}
    \cup {[NominalBoard EXCEPT !.ctrl7 = v] : v \in RegVals}
    \cup {[NominalBoard EXCEPT !.rststat = r, !.perstat = p, !.stuck = s] :
             r \in RegVals, p \in RegVals,
             s \in SUBSET {"CRG_PERRSTSTAT1", "CRG_PERSTAT1"}}

\* the state after reset and the C runtime's zeroing of the statics, on board b,
\* with the loader at position s of its call order (0: it follows none)
InitOn(b, s) ==
        /\ BL1_RAM_BASE = b.ram[1]
        /\ BL1_RAM_LIMIT = b.ram[2]
        /\ bl1_tbbr_image_descs = b.descs
        /\ mmio = [SCTRL_BAK_DATA0 |-> b.bak_data0,
                   CRG_CLKDIV3 |-> "reset",
                   PMU_CLK_TOP_CTRL7 |-> b.ctrl7,
                   CRG_PERRSTDIS1 |-> 0,
                   CRG_PERRSTSTAT1 |-> b.rststat,
                   CRG_PEREN1 |-> 0,
                   CRG_PERSTAT1 |-> b.perstat,
                   mmu |-> <<>>,
                   sp804 |-> "off",
                   ufs |-> "off",
                   io |-> "off"]
        /\ stuck = b.stuck
        /\ console = "none"
        /\ bl1_tzram_layout = ZeroLayout
        /\ bl2_tzram_layout = ZeroLayout
        /\ bl31_params_mem = ZeroParams
        /\ callidx = 0
        /\ tpc = "-"
        /\ data = 0
        /\ halted = FALSE
        /\ trace = <<>>
        /\ last = "none"
        /\ arg = 0
        /\ ret = Void
        /\ examined = 0
        /\ overwrote = FALSE
        /\ first_layout = NoLayout
        /\ writers = [o \in SharedState |-> {}]
        /\ step = s

Init == \E b \in Boards : InitOn(b, 0)

\* a hook can be entered: the previous one has returned and nothing halted
Idle == callidx = 0 /\ ~halted

\* one boot run: the order in which the loaders of the two stages call the hooks
BootOrder ==
    <<"bl1_early_platform_setup", "bl1_plat_arch_setup", "bl1_platform_setup",
      "bl1_plat_sec_mem_layout", "bl1_plat_get_next_image_id",
      "bl1_plat_get_image_desc", "bl1_plat_set_ep_info",
      "bl2_early_platform_setup", "bl2_plat_arch_setup", "bl2_platform_setup",
      "bl2_plat_sec_mem_layout", "bl2_plat_get_bl31_params",
      "bl2_plat_get_bl31_ep_info", "bl2_plat_get_bl30_meminfo",
      "bl2_plat_handle_bl30", "bl2_plat_set_bl31_ep_info",
      "bl2_plat_get_bl32_meminfo", "bl2_plat_set_bl32_ep_info",
      "bl2_plat_get_bl33_meminfo", "bl2_plat_set_bl33_ep_info",
      "bl2_plat_flush_bl31_params">>

\* the loader calls hook name: at any time when it follows no order, at the
\* hook's turn when it follows BootOrder
Called(name) ==
    /\ Idle
    /\ IF step = 0
       THEN step' = 0
       ELSE /\ step \in DOMAIN BootOrder
            /\ BootOrder[step] = name
            /\ step' = step + 1

\* what every hook records on return: its name, argument and return value
Returns(name, a, r, e, o) ==
    /\ last' = name
    /\ arg' = a
    /\ ret' = r
    /\ examined' = e
    /\ overwrote' = o

(***************************************************************************)
(* Stage 1: memory layout.                                                 *)
(***************************************************************************)
bl1_plat_sec_mem_layout ==
    /\ Called("bl1_plat_sec_mem_layout")
    /\ Returns("bl1_plat_sec_mem_layout", 0, Ptr("bl1_tzram_layout"), 0, FALSE)
    /\ UNCHANGED <<BL1_RAM_BASE, BL1_RAM_LIMIT, bl1_tbbr_image_descs, mmio, stuck,
                   console, bl1_tzram_layout, bl2_tzram_layout, bl31_params_mem,
                   callidx, tpc, data, halted, trace, first_layout, writers>>

\* const size_t bl1_size = BL1_RAM_LIMIT - BL1_RAM_BASE, with the wrong base
bl1_size_from_rw_base == USub(BL1_RAM_LIMIT, BL1_RW_BASE)

bl1_size == USub(BL1_RAM_LIMIT, BL1_RAM_BASE)

\* which of the two chunks around the sub-region is the smaller one
choose_mem_pos(mem_start, mem_end, submem_start, submem_end) ==
    LET top_chunk_size == USub(mem_end, submem_end)
        bottom_chunk_size == USub(submem_start, mem_start)
    IN  IF top_chunk_size < bottom_chunk_size
        THEN [pos |-> "TOP", small_chunk_size |-> top_chunk_size]
        ELSE [pos |-> "BOTTOM", small_chunk_size |-> bottom_chunk_size]

\* reserve [addr, addr + size) of the free region of rec: the smaller of the two
\* chunks left around it is given up, the larger one stays free
reserve_mem(rec, addr, size) ==
    LET c == choose_mem_pos(rec.free_base, UAdd(rec.free_base, rec.free_size),
                            addr, UAdd(addr, size))
        reserved_size == UAdd(size, c.small_chunk_size)
    IN  [rec EXCEPT !.free_size = USub(@, reserved_size),
                    !.free_base = IF c.pos = "BOTTOM" THEN UAdd(addr, size) ELSE @]

\* the record as bl1_early_platform_setup would leave it without the reservation
bl1_early_layout_unreserved(rec) ==
    [rec EXCEPT !.total_base = BL1_RW_BASE, !.total_size = BL1_RW_SIZE,
                !.free_base = BL1_RW_BASE, !.free_size = BL1_RW_SIZE]

\* ... and reserving from whatever free region the record held
bl1_early_layout_stale_free(rec) ==
    reserve_mem([rec EXCEPT !.total_base = BL1_RW_BASE, !.total_size = BL1_RW_SIZE],
                BL1_RAM_BASE, bl1_size)

\* the four assignments and the reservation of bl1_early_platform_setup
bl1_early_layout(rec) ==
    reserve_mem([rec EXCEPT !.total_base = BL1_RW_BASE, !.total_size = BL1_RW_SIZE,
                            !.free_base = BL1_RW_BASE, !.free_size = BL1_RW_SIZE],
                BL1_RAM_BASE, bl1_size)

bl1_early_platform_setup ==
    /\ Called("bl1_early_platform_setup")
    /\ console' = "CONSOLE_BASE"
    /\ bl1_tzram_layout' = bl1_early_layout(bl1_tzram_layout)
    /\ first_layout' = IF first_layout = NoLayout THEN bl1_tzram_layout'
                       ELSE first_layout
    /\ writers' = [writers EXCEPT !["bl1_tzram_layout"] =
                                      @ \cup {"bl1_early_platform_setup"}]
    /\ Returns("bl1_early_platform_setup", 0, Void, 0,
               bl1_tzram_layout # ZeroLayout /\ bl1_tzram_layout # bl1_tzram_layout')
    /\ UNCHANGED <<BL1_RAM_BASE, BL1_RAM_LIMIT, bl1_tbbr_image_descs, mmio, stuck,
                   bl2_tzram_layout, bl31_params_mem, callidx, tpc, data, halted,
                   trace>>

\* hikey960_init_mmu_el3 is handed the total extents of the record
bl1_plat_arch_setup ==
    /\ Called("bl1_plat_arch_setup")
    /\ mmio' = [mmio EXCEPT !.mmu = <<bl1_tzram_layout.total_base,
                                       bl1_tzram_layout.total_size>>]
    /\ Returns("bl1_plat_arch_setup", 0, Void, 0, FALSE)
    /\ UNCHANGED <<BL1_RAM_BASE, BL1_RAM_LIMIT, bl1_tbbr_image_descs, stuck, console,
                   bl1_tzram_layout, bl2_tzram_layout, bl31_params_mem, callidx, tpc,
                   data, halted, trace, first_layout, writers>>

(***************************************************************************)
(* Stage 1: bl1_platform_setup and the five bring-up functions it calls.   *)
(***************************************************************************)
\* the calls with the PMU write moved behind the timer bring-up
bl1_platform_setup_calls_timer_first ==
    <<"hikey960_clk_init", "hikey960_timer_init", "hikey960_pmu_init",
      "hikey960_ufs_init", "hikey960_io_setup">>

\* the body of bl1_platform_setup: its calls in program order
bl1_platform_setup_calls ==
    <<"hikey960_clk_init", "hikey960_pmu_init", "hikey960_timer_init",
      "hikey960_ufs_init", "hikey960_io_setup">>

\* the function bl1_platform_setup is executing
Running(fn) ==
    /\ ~halted
    /\ callidx \in DOMAIN bl1_platform_setup_calls
    /\ bl1_platform_setup_calls[callidx] = fn

\* fn returns into bl1_platform_setup, which calls the next function or returns
\* to the loader after the last one
Completes(fn) ==
    /\ trace' = Append(trace, fn)
    /\ IF callidx = Len(bl1_platform_setup_calls)
       THEN /\ callidx' = 0
            /\ Returns("bl1_platform_setup", 0, Void, 0, FALSE)
       ELSE /\ callidx' = callidx + 1
            /\ UNCHANGED <<last, arg, ret, examined, overwrote>>
    /\ tpc' = IF callidx < Len(bl1_platform_setup_calls)
                 /\ bl1_platform_setup_calls[callidx + 1] = "hikey960_timer_init"
              THEN "unreset" ELSE "-"

\* everything a step of bl1_platform_setup leaves alone, registers aside
PlatformFrame ==
    UNCHANGED <<BL1_RAM_BASE, BL1_RAM_LIMIT, bl1_tbbr_image_descs, stuck, console,
                bl1_tzram_layout, bl2_tzram_layout, bl31_params_mem, halted,
                first_layout, writers, step>>

\* the loader enters bl1_platform_setup
bl1_platform_setup ==
    /\ Called("bl1_platform_setup")
    /\ callidx' = 1
    /\ tpc' = IF bl1_platform_setup_calls[1] = "hikey960_timer_init"
              THEN "unreset" ELSE "-"
    /\ trace' = <<>>
    /\ UNCHANGED <<mmio, data, last, arg, ret, examined, overwrote>>
    /\ UNCHANGED <<BL1_RAM_BASE, BL1_RAM_LIMIT, bl1_tbbr_image_descs, stuck, console,
                   bl1_tzram_layout, bl2_tzram_layout, bl31_params_mem, halted,
                   first_layout, writers>>

hikey960_clk_init ==
    /\ Running("hikey960_clk_init")
    /\ mmio' = [mmio EXCEPT !.CRG_CLKDIV3 = "0xf0001000"]
    /\ Completes("hikey960_clk_init")
    /\ UNCHANGED data
    /\ PlatformFrame

hikey960_pmu_init ==
    /\ Running("hikey960_pmu_init")
    /\ mmio' = [mmio EXCEPT !.PMU_CLK_TOP_CTRL7 = BitClr(@, NP_XO_ABB_DIG)]
    /\ Completes("hikey960_pmu_init")
    /\ UNCHANGED data
    /\ PlatformFrame

\* a step inside hikey960_timer_init that stays inside it
TimerStep(from, to) ==
    /\ Running("hikey960_timer_init")
    /\ tpc = from
    /\ tpc' = to
    /\ UNCHANGED <<callidx, trace, last, arg, ret, examined, overwrote>>
    /\ PlatformFrame

\* mmio_write_32(CRG_REG_BASE + CRG_PERRSTDIS1_OFFSET, PERI_TIMER9_BIT)
hikey960_timer_init_unreset ==
    /\ TimerStep("unreset", "poll_reset")
    /\ mmio' = [mmio EXCEPT !.CRG_PERRSTDIS1 = PERI_TIMER9_BIT]
    /\ UNCHANGED data

\* the first loop exits as soon as a read is made, whatever it shows
reset_poll_again_never(d) == FALSE

\* while (data & PERI_TIMER9_BIT)
reset_poll_again(d) == BitAnd(d, PERI_TIMER9_BIT) # 0

\* one iteration of the first do-while: read the reset status, test it
hikey960_timer_init_poll_reset ==
    /\ TimerStep("poll_reset",
                 IF reset_poll_again(mmio.CRG_PERRSTSTAT1)
                 THEN "poll_reset" ELSE "enable")
    /\ data' = mmio.CRG_PERRSTSTAT1
    /\ UNCHANGED mmio

\* mmio_write_32(CRG_REG_BASE + CRG_PEREN1_OFFSET, PERI_TIMER9_BIT)
hikey960_timer_init_enable ==
    /\ TimerStep("enable", "poll_enable")
    /\ mmio' = [mmio EXCEPT !.CRG_PEREN1 = PERI_TIMER9_BIT]
    /\ UNCHANGED data

\* while ((data & PERI_TIMER9_BIT) == 0)
enable_poll_again(d) == BitAnd(d, PERI_TIMER9_BIT) = 0

\* one iteration of the second do-while: read the enable status, test it
hikey960_timer_init_poll_enable ==
    /\ TimerStep("poll_enable",
                 IF enable_poll_again(mmio.CRG_PERSTAT1)
                 THEN "poll_enable" ELSE "sp804")
    /\ data' = mmio.CRG_PERSTAT1
    /\ UNCHANGED mmio

\* sp804_timer_init(TIMER9_REG_BASE, 15625, 512), then return
hikey960_timer_init_sp804 ==
    /\ Running("hikey960_timer_init")
    /\ tpc = "sp804"
    /\ mmio' = [mmio EXCEPT !.sp804 = "TIMER9 15625/512"]
    /\ Completes("hikey960_timer_init")
    /\ UNCHANGED data
    /\ PlatformFrame

hikey960_ufs_init ==
    /\ Running("hikey960_ufs_init")
    /\ mmio' = [mmio EXCEPT !.ufs = "UFS_FLAGS_SKIPINIT"]
    /\ Completes("hikey960_ufs_init")
    /\ UNCHANGED data
    /\ PlatformFrame

hikey960_io_setup ==
    /\ Running("hikey960_io_setup")
    /\ mmio' = [mmio EXCEPT !.io = "on"]
    /\ Completes("hikey960_io_setup")
    /\ UNCHANGED data
    /\ PlatformFrame

(***************************************************************************)
(* The clock and reset generator behind the two status registers: once the *)
(* reset-disable (clock-enable) bit has been written, the status bit of a  *)
(* working peripheral follows.  A stuck status bit never changes.          *)
(***************************************************************************)
HardwareFrame ==
    UNCHANGED <<BL1_RAM_BASE, BL1_RAM_LIMIT, bl1_tbbr_image_descs, stuck, console,
                bl1_tzram_layout, bl2_tzram_layout, bl31_params_mem, callidx, tpc,
                data, halted, trace, last, arg, ret, examined, overwrote,
                first_layout, writers, step>>

CRG_reset_deasserted ==
    /\ "CRG_PERRSTSTAT1" \notin stuck
    /\ BitAnd(mmio.CRG_PERRSTDIS1, PERI_TIMER9_BIT) # 0
    /\ BitAnd(mmio.CRG_PERRSTSTAT1, PERI_TIMER9_BIT) # 0
    /\ mmio' = [mmio EXCEPT !.CRG_PERRSTSTAT1 = BitClr(@, PERI_TIMER9_BIT)]
    /\ HardwareFrame

CRG_clock_enabled ==
    /\ "CRG_PERSTAT1" \notin stuck
    /\ BitAnd(mmio.CRG_PEREN1, PERI_TIMER9_BIT) # 0
    /\ BitAnd(mmio.CRG_PERSTAT1, PERI_TIMER9_BIT) = 0
    /\ mmio' = [mmio EXCEPT !.CRG_PERSTAT1 = @ + PERI_TIMER9_BIT]
    /\ HardwareFrame

(***************************************************************************)
(* Stage 1: choice of the next image and lookup of its descriptor.         *)
(***************************************************************************)
\* the switch on the register value itself, the mask forgotten
next_image_id_of_unmasked(mode) ==
    CASE mode = BOOT_MODE_RECOVERY -> [panic |-> FALSE, id |-> BL2U_IMAGE_ID]
      [] mode = BOOT_MODE_NORMAL -> [panic |-> FALSE, id |-> BL2_IMAGE_ID]
      [] OTHER -> [panic |-> TRUE, id |-> 0]

\* the switch of bl1_plat_get_next_image_id on the masked register value: the
\* image id it returns, or no return at all (WARN, then panic)
next_image_id_of(mode) ==
    LET masked == BitAnd(mode, BOOT_MODE_MASK)
    IN  CASE masked = BOOT_MODE_RECOVERY -> [panic |-> FALSE, id |-> BL2U_IMAGE_ID]
          [] masked = BOOT_MODE_NORMAL -> [panic |-> FALSE, id |-> BL2_IMAGE_ID]
          [] OTHER -> [panic |-> TRUE, id |-> 0]

bl1_plat_get_next_image_id ==
    LET r == next_image_id_of(mmio.SCTRL_BAK_DATA0)
    IN  /\ Called("bl1_plat_get_next_image_id")
        /\ halted' = r.panic
        /\ IF r.panic
           THEN UNCHANGED <<last, arg, ret, examined, overwrote>>
           ELSE Returns("bl1_plat_get_next_image_id", 0,
                        [kind |-> "image_id", val |-> r.id], 0, FALSE)
        /\ UNCHANGED <<BL1_RAM_BASE, BL1_RAM_LIMIT, bl1_tbbr_image_descs, mmio, stuck,
                       console, bl1_tzram_layout, bl2_tzram_layout, bl31_params_mem,
                       callidx, tpc, data, trace, first_layout, writers>>

\* the scan that keeps going after a match and returns the last one
RECURSIVE image_desc_scan_last_match(_, _, _)
image_desc_scan_last_match(descs, image_id, index) ==
    IF descs[index] = INVALID_IMAGE_ID
    THEN [desc |-> NULL, examined |-> index]
    ELSE LET rest == image_desc_scan_last_match(descs, image_id, index + 1)
         IN  IF rest.desc = NULL /\ descs[index] = image_id
             THEN [desc |-> index, examined |-> rest.examined]
             ELSE rest

\* the scan that compares with image_id before it tests for the sentinel
RECURSIVE image_desc_scan_match_first(_, _, _)
image_desc_scan_match_first(descs, image_id, index) ==
    IF descs[index] = image_id
    THEN [desc |-> index, examined |-> index]
    ELSE IF descs[index] = INVALID_IMAGE_ID
         THEN [desc |-> NULL, examined |-> index]
         ELSE image_desc_scan_match_first(descs, image_id, index + 1)

\* the while loop of bl1_plat_get_image_desc from entry index on (entries are
\* numbered from 1 here): the pointer returned and the number of entries read
RECURSIVE image_desc_scan(_, _, _)
image_desc_scan(descs, image_id, index) ==
    IF descs[index] = INVALID_IMAGE_ID
    THEN [desc |-> NULL, examined |-> index]
    ELSE IF descs[index] = image_id
         THEN [desc |-> index, examined |-> index]
         ELSE image_desc_scan(descs, image_id, index + 1)

bl1_plat_get_image_desc(image_id) ==
    LET r == image_desc_scan(bl1_tbbr_image_descs, image_id, 1)
    IN  /\ Called("bl1_plat_get_image_desc")
        /\ Returns("bl1_plat_get_image_desc", image_id,
                   [kind |-> "image_desc", val |-> r.desc], r.examined, FALSE)
        /\ UNCHANGED <<BL1_RAM_BASE, BL1_RAM_LIMIT, bl1_tbbr_image_descs, mmio, stuck,
                       console, bl1_tzram_layout, bl2_tzram_layout, bl31_params_mem,
                       callidx, tpc, data, halted, trace, first_layout, writers>>

\* an empty body
bl1_plat_set_ep_info(image_id) ==
    /\ Called("bl1_plat_set_ep_info")
    /\ Returns("bl1_plat_set_ep_info", image_id, Void, 0, FALSE)
    /\ UNCHANGED <<BL1_RAM_BASE, BL1_RAM_LIMIT, bl1_tbbr_image_descs, mmio, stuck,
                   console, bl1_tzram_layout, bl2_tzram_layout, bl31_params_mem,
                   callidx, tpc, data, halted, trace, first_layout, writers>>

(***************************************************************************)
(* Stage 2.                                                                *)
(***************************************************************************)
\* everything stage 2's hooks leave alone, its own statics aside
Bl2Frame ==
    UNCHANGED <<BL1_RAM_BASE, BL1_RAM_LIMIT, bl1_tbbr_image_descs, mmio, stuck,
                bl1_tzram_layout, callidx, tpc, data, halted, trace, first_layout>>

\* a hook of stage 2 with an empty body (or a bare return) changes nothing
Bl2Stub(name, r) ==
    /\ Returns(name, 0, r, 0, FALSE)
    /\ UNCHANGED <<console, bl2_tzram_layout, bl31_params_mem, writers>>
    /\ Bl2Frame

bl2_plat_sec_mem_layout ==
    /\ Called("bl2_plat_sec_mem_layout")
    /\ Bl2Stub("bl2_plat_sec_mem_layout", Ptr("bl2_tzram_layout"))

\* memset over the first member only
memset_bl31_params_only(mem) == [mem EXCEPT !.bl31_params = 0]

\* memset(&bl31_params_mem, 0, sizeof(bl2_to_bl31_params_mem_t))
memset_bl31_params_mem(mem) == [f \in DOMAIN mem |-> 0]

bl2_plat_get_bl31_params ==
    /\ Called("bl2_plat_get_bl31_params")
    /\ bl31_params_mem' = memset_bl31_params_mem(bl31_params_mem)
    /\ writers' = [writers EXCEPT !["bl31_params_mem"] =
                                      @ \cup {"bl2_plat_get_bl31_params"}]
    /\ Returns("bl2_plat_get_bl31_params", 0, Ptr("bl31_params_mem.bl31_params"), 0,
               bl31_params_mem # ZeroParams)
    /\ UNCHANGED <<console, bl2_tzram_layout>>
    /\ Bl2Frame

bl2_plat_get_bl31_ep_info ==
    /\ Called("bl2_plat_get_bl31_ep_info")
    /\ Bl2Stub("bl2_plat_get_bl31_ep_info", Ptr("bl31_params_mem.bl31_ep_info"))

\* the layouts stage 1 may pass on
MemLayouts ==
    {[total_base |-> BL1_RW_BASE, total_size |-> BL1_RW_SIZE,
      free_base |-> b, free_size |-> BL1_RW_SIZE - (b - BL1_RW_BASE)] :
        b \in BL1_RW_BASE .. BL1_RW_BASE + 1}

\* console_init only: mem_layout is not read
bl2_early_platform_setup(mem_layout) ==
    /\ Called("bl2_early_platform_setup")
    /\ console' = "PL011_UART0_BASE"
    /\ Returns("bl2_early_platform_setup", 0, Void, 0, FALSE)
    /\ UNCHANGED <<bl2_tzram_layout, bl31_params_mem, writers>>
    /\ Bl2Frame

bl2_platform_setup ==
    /\ Called("bl2_platform_setup")
    /\ Bl2Stub("bl2_platform_setup", Void)
bl2_plat_flush_bl31_params ==
    /\ Called("bl2_plat_flush_bl31_params")
    /\ Bl2Stub("bl2_plat_flush_bl31_params", Void)
bl2_plat_arch_setup ==
    /\ Called("bl2_plat_arch_setup")
    /\ Bl2Stub("bl2_plat_arch_setup", Void)
bl2_plat_get_bl30_meminfo ==
    /\ Called("bl2_plat_get_bl30_meminfo")
    /\ Bl2Stub("bl2_plat_get_bl30_meminfo", Void)
bl2_plat_handle_bl30 ==
    /\ Called("bl2_plat_handle_bl30")
    /\ Bl2Stub("bl2_plat_handle_bl30", [kind |-> "int", val |-> 0])
bl2_plat_set_bl31_ep_info ==
    /\ Called("bl2_plat_set_bl31_ep_info")
    /\ Bl2Stub("bl2_plat_set_bl31_ep_info", Void)
bl2_plat_set_bl32_ep_info ==
    /\ Called("bl2_plat_set_bl32_ep_info")
    /\ Bl2Stub("bl2_plat_set_bl32_ep_info", Void)
bl2_plat_set_bl33_ep_info ==
    /\ Called("bl2_plat_set_bl33_ep_info")
    /\ Bl2Stub("bl2_plat_set_bl33_ep_info", Void)
bl2_plat_get_bl32_meminfo ==
    /\ Called("bl2_plat_get_bl32_meminfo")
    /\ Bl2Stub("bl2_plat_get_bl32_meminfo", Void)
bl2_plat_get_bl33_meminfo ==
    /\ Called("bl2_plat_get_bl33_meminfo")
    /\ Bl2Stub("bl2_plat_get_bl33_meminfo", Void)

(***************************************************************************)
(* The external loader, which writes through the pointers the hooks hand   *)
(* out: it populates the parameter block it got from                       *)
(* bl2_plat_get_bl31_params, and image loading updates the layout record   *)
(* it got from bl1_plat_sec_mem_layout.                                    *)
(***************************************************************************)
LoaderWriteParams(field, v) ==
    /\ Idle
    /\ UNCHANGED step
    /\ "bl2_plat_get_bl31_params" \in writers["bl31_params_mem"]
    /\ bl31_params_mem' = [bl31_params_mem EXCEPT ![field] = v]
    /\ Returns("loader", 0, Void, 0, FALSE)
    /\ UNCHANGED <<console, bl2_tzram_layout, writers>>
    /\ Bl2Frame

LoaderWriteLayout(field, v) ==
    /\ Idle
    /\ UNCHANGED step
    /\ "bl1_early_platform_setup" \in writers["bl1_tzram_layout"]
    /\ bl1_tzram_layout' = [bl1_tzram_layout EXCEPT ![field] = v]
    /\ Returns("loader", 0, Void, 0, FALSE)
    /\ UNCHANGED <<BL1_RAM_BASE, BL1_RAM_LIMIT, bl1_tbbr_image_descs, mmio, stuck,
                   console, bl2_tzram_layout, bl31_params_mem, callidx, tpc, data,
                   halted, trace, first_layout, writers>>

(***************************************************************************)
(* Specifications.                                                         *)
(***************************************************************************)
PlatformSteps ==
    \/ hikey960_clk_init
    \/ hikey960_pmu_init
    \/ hikey960_timer_init_unreset
    \/ hikey960_timer_init_poll_reset
    \/ hikey960_timer_init_enable
    \/ hikey960_timer_init_poll_enable
    \/ hikey960_timer_init_sp804
    \/ hikey960_ufs_init
    \/ hikey960_io_setup

Hardware ==
    \/ CRG_reset_deasserted
    \/ CRG_clock_enabled

\* stage 1: the loader calls the hooks in any order, one at a time
Next ==
    \/ bl1_plat_sec_mem_layout
    \/ bl1_early_platform_setup
    \/ bl1_plat_arch_setup
    \/ bl1_platform_setup
    \/ bl1_plat_get_next_image_id
    \/ \E id \in LookupIds : bl1_plat_get_image_desc(id)
    \/ \E id \in LookupIds : bl1_plat_set_ep_info(id)
    \/ PlatformSteps
    \/ Hardware

Spec == Init /\ [][Next]_vars

\* stage 1's layout record with a loader that writes to it between the calls
Bl1LoaderNext ==
    \/ bl1_plat_sec_mem_layout
    \/ bl1_early_platform_setup
    \/ \E f \in DOMAIN ZeroLayout, v \in 0..MaxWrite : LoaderWriteLayout(f, v)

Bl1LoaderSpec == Init /\ [][Bl1LoaderNext]_vars

\* stage 2: the hooks in any order, and a loader that populates the block
Bl2Next ==
    \/ bl2_plat_sec_mem_layout
    \/ bl2_plat_get_bl31_params
    \/ bl2_plat_get_bl31_ep_info
    \/ \E m \in MemLayouts : bl2_early_platform_setup(m)
    \/ bl2_platform_setup
    \/ bl2_plat_flush_bl31_params
    \/ bl2_plat_arch_setup
    \/ bl2_plat_get_bl30_meminfo
    \/ bl2_plat_handle_bl30
    \/ bl2_plat_set_bl31_ep_info
    \/ bl2_plat_set_bl32_ep_info
    \/ bl2_plat_set_bl33_ep_info
    \/ bl2_plat_get_bl32_meminfo
    \/ bl2_plat_get_bl33_meminfo
    \/ \E f \in DOMAIN ZeroParams, v \in 0..MaxWrite : LoaderWriteParams(f, v)

Bl2Spec == Init /\ [][Bl2Next]_vars

\* one boot run of the two stages in the loaders' call order; the descriptor
\* looked up and the entry point set are those of the image id just chosen
BootInit == \E b \in Boards : InitOn(b, 1)

BootNext ==
    \/ bl1_plat_sec_mem_layout
    \/ bl1_early_platform_setup
    \/ bl1_plat_arch_setup
    \/ bl1_platform_setup
    \/ bl1_plat_get_next_image_id
    \/ bl1_plat_get_image_desc(ret.val)
    \/ bl1_plat_set_ep_info(arg)
    \/ PlatformSteps
    \/ Hardware
    \/ bl2_plat_sec_mem_layout
    \/ bl2_plat_get_bl31_params
    \/ bl2_plat_get_bl31_ep_info
    \/ bl2_early_platform_setup(bl1_tzram_layout)
    \/ bl2_platform_setup
    \/ bl2_plat_flush_bl31_params
    \/ bl2_plat_arch_setup
    \/ bl2_plat_get_bl30_meminfo
    \/ bl2_plat_handle_bl30
    \/ bl2_plat_set_bl31_ep_info
    \/ bl2_plat_set_bl32_ep_info
    \/ bl2_plat_set_bl33_ep_info
    \/ bl2_plat_get_bl32_meminfo
    \/ bl2_plat_get_bl33_meminfo

BootSpec == BootInit /\ [][BootNext]_vars

BootDone == step = Len(BootOrder) + 1

\* bl1_platform_setup alone, with a processor that keeps executing and
\* peripherals that respond unless stuck
PlatformNext ==
    \/ bl1_platform_setup
    \/ PlatformSteps
    \/ Hardware

LiveSpec ==
    /\ Init
    /\ [][PlatformNext]_vars
    /\ WF_vars(PlatformSteps)

(***************************************************************************)
(* Properties.                                                             *)
(***************************************************************************)
Min(S) == CHOOSE x \in S : \A y \in S : x <= y

Range(f) == {f[i] : i \in DOMAIN f}

\* bl1_early_platform_setup has run at least once
EarlySetupDone == "bl1_early_platform_setup" \in writers["bl1_tzram_layout"]

\* index of the first sentinel entry of a table
FirstSentinel(descs) == Min({i \in DOMAIN descs : descs[i] = INVALID_IMAGE_ID})

\* the lowest-index entry before the sentinel that carries id, or NULL
FirstMatch(descs, id) ==
    LET m == {i \in 1..(FirstSentinel(descs) - 1) : descs[i] = id}
    IN  IF m = {} THEN NULL ELSE Min(m)

C2_FreeOutsideFootprint ==
    EarlySetupDone =>
        {a \in 0..(2 * Modulus) :
            /\ bl1_tzram_layout.free_base <= a
            /\ a < bl1_tzram_layout.free_base + bl1_tzram_layout.free_size}
        \cap {a \in 0..(2 * Modulus) : BL1_RAM_BASE <= a /\ a < BL1_RAM_LIMIT} = {}

C2_Witness ==
    /\ EarlySetupDone
    /\ last = "bl1_platform_setup"
    /\ BL1_RAM_BASE < BL1_RAM_LIMIT
    /\ bl1_tzram_layout.free_size > 0

\* C3: bl1_plat_get_image_desc(id) returns the lowest-index entry before the
\* sentinel whose image id is id, NULL when there is none (a table of the
\* sentinel alone included), and leaves the table as it was.
C3_FirstMatch ==
    [][last' = "bl1_plat_get_image_desc" =>
           /\ ret' = [kind |-> "image_desc",
                      val |-> FirstMatch(bl1_tbbr_image_descs, arg')]
           /\ bl1_tbbr_image_descs' = bl1_tbbr_image_descs]_vars

C3_Witness ==
    /\ last = "bl1_plat_get_image_desc"
    /\ Len(bl1_tbbr_image_descs) = 3
    /\ bl1_tbbr_image_descs[1] = arg
    /\ bl1_tbbr_image_descs[2] = arg
    /\ arg # INVALID_IMAGE_ID
    /\ ret.val = 1

\* C4: right after any call of bl2_plat_get_bl31_params every member of
\* bl31_params_mem is zero, whatever the loader had written into it.
C4_ParamsZeroed ==
    last = "bl2_plat_get_bl31_params" =>
        \A f \in DOMAIN bl31_params_mem : bl31_params_mem[f] = 0

C4_Witness ==
    /\ last = "bl2_plat_get_bl31_params"
    /\ overwrote

\* the order the bring-up steps are to have
BringUpOrder ==
    <<"hikey960_clk_init", "hikey960_pmu_init", "hikey960_timer_init",
      "hikey960_ufs_init", "hikey960_io_setup">>

\* C5: inside bl1_platform_setup the step being executed is the one that
\* follows the completed ones in the order clock, PMU, timer, UFS, I/O, and
\* when bl1_platform_setup has returned each step was completed once, in
\* that order.
C5_BringUpOrder ==
    /\ callidx # 0 =>
           /\ trace = SubSeq(BringUpOrder, 1, callidx - 1)
           /\ bl1_platform_setup_calls[callidx] = BringUpOrder[callidx]
    /\ (callidx = 0 /\ last = "bl1_platform_setup") => trace = BringUpOrder

C5_Witness ==
    /\ callidx = 0
    /\ last = "bl1_platform_setup"
    /\ trace = BringUpOrder
    /\ mmio.io = "on"

\* C6: at the end of one boot run each of the three static objects has been
\* written by exactly one function of the two files.
C6_OneWriterEach ==
    BootDone => \A o \in SharedState : Cardinality(writers[o]) = 1

C8_EarlySetupIdempotent ==
    last = "bl1_early_platform_setup" => bl1_tzram_layout = first_layout

C8_Witness ==
    /\ last = "bl1_early_platform_setup"
    /\ overwrote
    /\ bl1_tzram_layout = first_layout

\* the TIMER9 bit of a register value is set
Timer9Set(v) == (v \div PERI_TIMER9_BIT) % 2 = 1

\* C9: the enable write is reached only with a reset-status read that showed
\* the TIMER9 bit clear, sp804_timer_init and the steps after it only with an
\* enable-status read that showed it set; while a status bit never takes the
\* awaited value bl1_platform_setup does not return; and once the hardware
\* presents both awaited values a started bl1_platform_setup returns.
C9_TimerPolls ==
    /\ [](callidx # 0 =>
            /\ tpc = "enable" => ~Timer9Set(data)
            /\ (tpc = "sp804" \/ "hikey960_timer_init" \in Range(trace)) =>
                   Timer9Set(data))
    /\ [](Timer9Set(mmio.CRG_PERRSTSTAT1)) => [](last # "bl1_platform_setup")
    /\ [](~Timer9Set(mmio.CRG_PERSTAT1)) => [](last # "bl1_platform_setup")
    /\ (<>[](~Timer9Set(mmio.CRG_PERRSTSTAT1)) /\ <>[](Timer9Set(mmio.CRG_PERSTAT1)))
           => (callidx # 0 ~> callidx = 0)

C9_Witness ==
    /\ callidx = 0
    /\ last = "bl1_platform_setup"
    /\ mmio.CRG_PERRSTDIS1 = PERI_TIMER9_BIT
    /\ mmio.CRG_PEREN1 = PERI_TIMER9_BIT
    /\ ~Timer9Set(mmio.CRG_PERRSTSTAT1)
    /\ Timer9Set(mmio.CRG_PERSTAT1)
    /\ mmio.sp804 # "off"

\* C10: a lookup never returns the sentinel entry or an entry behind it (so a
\* lookup of INVALID_IMAGE_ID returns NULL), and it reads no entry behind the
\* first sentinel.
C10_StopsAtSentinel ==
    last = "bl1_plat_get_image_desc" =>
        /\ arg = INVALID_IMAGE_ID => ret.val = NULL
        /\ ret.val # NULL => ret.val < FirstSentinel(bl1_tbbr_image_descs)
        /\ examined <= FirstSentinel(bl1_tbbr_image_descs)

C10_Witness ==
    /\ last = "bl1_plat_get_image_desc"
    /\ arg = INVALID_IMAGE_ID
    /\ ret.val = NULL
    /\ Len(bl1_tbbr_image_descs) > FirstSentinel(bl1_tbbr_image_descs)
    /\ examined = FirstSentinel(bl1_tbbr_image_descs)

=============================================================================
